---------------------------- MODULE Spec2Model ----------------------------
(***************************************************************************)
(* The update execution engine of paradrop                                 *)
(* (paradrop/backend/exc/executionplan.py): generatePlans, aggregatePlans, *)
(* executePlans and abortPlans driving the plan graph of an Update.        *)
(*                                                                         *)
(* The plan graph (module plangraph: PlanMap with addPlans, sort,          *)
(* getNextTodo, getNextAbort, registerSkip) and the Update object are not  *)
(* among the source files; they are modelled from section 4.1 and          *)
(* section 3 of the specification.                                         *)
(*                                                                         *)
(* Further: the router-control generator (paradrop/lib/plan/router.py)     *)
(* with the power operations (paradrop/lib/config/power.py), run by the    *)
(* engine in SpecRouter; the Chute object (paradrop/core/chute/chute.py)   *)
(* in SpecChute; PDServerRequest (paradrop/lib/utils/http.py) in SpecHttp;  *)
(* and the add-wifi-ap command of pdtools (pdtools/chute.py) in SpecTool.  *)
(***************************************************************************)
EXTENDS Integers, Sequences, FiniteSets, TLC

(***************************************************************************)
(* Bounds of the model.                                                    *)
(***************************************************************************)
\* The largest number of entries addPlans puts into one plan graph.
MaxPlans == 4

\* The stage ordinals the generators of the repository plan with
\* (plangraph.STATE_CALL_STOP, plangraph.STATE_SAVE_CHUTE).  Their numbers are
\* not in the sources; only their order matters: stopping comes before
\* saving the chute.
STATE_CALL_STOP == 1

STATE_SAVE_CHUTE == 2

Stages == {STATE_CALL_STOP, STATE_SAVE_CHUTE}

\* Operation identities (the function objects put into the plans).
Funcs == {"f", "g"}

\* Chutes owning plan entries.
Owners == {"chuteA", "chuteB"}

\* The Updates that may exist; `active' holds the ones a behaviour runs.
UpdateIds == {"u1", "u2"}

\* update.updateModuleList: the registered generators, in registration order.
updateModuleList == <<"mod1", "mod2">>

VARIABLES
    active,      \* the Updates of this behaviour
    pc,          \* pc[u]: where the caller of the engine is for Update u
    genIdx,      \* genIdx[u]: position of generatePlans' for loop
    genResult,   \* genResult[u]: what generatePlans returned / raised
    plans,       \* plans[u]: update.plans, the PlanMap
    responses,   \* responses[u]: update.responses
    execResult,  \* execResult[u]: what executePlans returned
    abortResult, \* abortResult[u]: what abortPlans returned / raised
    sameError,   \* sameError[u]: abortPlans' local flag
    sys,         \* sys[u]: the system state the operations of u act on
    added,       \* history: added[u], the entries in the order addPlans made them
    genLog,      \* history: the generators generatePlans invoked and what each did
    todoLog,     \* history: the entries executePlans invoked and whether each raised
    named,       \* history: the operations named by the return values so far
    abortLog,    \* history: the entries abortPlans invoked and whether each raised
    updateType,  \* updateType[u]: update.updateType
    progress,    \* progress[u]: the messages passed to update.progress
    osLog,       \* history: osLog[u], the exit statuses subprocess.call returned
    chute,       \* a Chute object
    lastCall,    \* the method called last on the Chute object and what it returned
    token,       \* PDServerRequest.token, the class attribute
    req,         \* a PDServerRequest object: setAuthHeader and its Authorization header
    hpc,         \* what the PDServerRequest object is waiting for
    resp,        \* the codes of the responses its callbacks hold
    wire,        \* history: the requests handed to the agent, in order
    received,    \* history: the responses the agent answered with, in order
    delivered,   \* history: the PDServerResponses passed to req's deferred
    paradrop_yaml, \* the content of the file paradrop.yaml
    cmd,         \* the pdtools command run last, its arguments and the file it found
    dumps,       \* what the command run last wrote to paradrop.yaml, write by write
    printed      \* the lines the command run last printed

engineVars == <<pc, genIdx, genResult, plans, responses, execResult, abortResult, sameError, sys>>

histVars == <<added, genLog, todoLog, named, abortLog>>

routerVars == <<updateType, progress, osLog>>

chuteVars == <<chute, lastCall>>

httpVars == <<token, req, hpc, resp, wire, received, delivered>>

\* The objects outside the engine.
toolVars == <<paradrop_yaml, cmd, dumps, printed>>

libVars == <<chuteVars, httpVars, toolVars>>

vars == <<active, engineVars, histVars, routerVars, libVars>>

(***************************************************************************)
(* Sequences.                                                              *)
(***************************************************************************)
Reverse(s) == [i \in 1..Len(s) |-> s[Len(s) + 1 - i]]

Front(s) == SubSeq(s, 1, Len(s) - 1)

Last(s) == s[Len(s)]

Range(s) == {s[i] : i \in 1..Len(s)}

(***************************************************************************)
(* Plan graph (PlanMap), modelled from the specification, section 4.1.     *)
(* An entry is (stage, owner, operation); seq is the ordinal of the        *)
(* addPlans call that made it and stands for its argument bundle.          *)
(***************************************************************************)
Entry(st, ch, fn, n) == [stage |-> st, ch |-> ch, func |-> fn, seq |-> n]

\* A new PlanMap: nothing pending, nothing run, nothing skipped.
\* lastTodo holds the entry getNextTodo returned last (at most one): it is
\* appended to the already-run record only by the next getNextTodo call, so
\* that the record holds the entries that were executed, not the one that
\* faults.
EmptyPlanMap == [plans |-> <<>>, abtPlans |-> <<>>, skipFunctions |-> {}, lastTodo |-> <<>>]

\* addPlans(stage, operation): appends one entry tagged with stage.
addPlans(pm, st, ch, fn) ==
    [pm EXCEPT !.plans = Append(@, Entry(st, ch, fn, Len(@) + 1))]

RECURSIVE addAll(_, _, _)
addAll(pm, ch, adds) ==
    IF adds = <<>> THEN pm
    ELSE addAll(addPlans(pm, adds[1].stage, ch, adds[1].func), ch, Tail(adds))

\* sort(): stable reordering by ascending stage: each entry, in insertion
\* order, goes behind the entries whose stage is not greater than its own.
RECURSIVE InsertByStage(_, _)
InsertByStage(s, e) ==
    IF s = <<>> THEN <<e>>
    ELSE IF Head(s).stage <= e.stage THEN <<Head(s)>> \o InsertByStage(Tail(s), e)
    ELSE <<e>> \o s

RECURSIVE SortByStage(_)
SortByStage(s) ==
    IF s = <<>> THEN <<>> ELSE InsertByStage(SortByStage(Front(s)), Last(s))

sort(pm) == [pm EXCEPT !.plans = SortByStage(@)]

\* registerSkip(operationRef): adds an operation reference to the skip set.
registerSkip(pm, fn) == [pm EXCEPT !.skipFunctions = @ \cup {fn}]

RECURSIVE DropSkipped(_, _)
DropSkipped(pending, skip) ==
    IF pending = <<>> THEN <<>>
    ELSE IF Head(pending).func \in skip THEN DropSkipped(Tail(pending), skip)
    ELSE pending

\* getNextTodo(): records the entry returned last as already run, discards the
\* pending entries at the front whose operation is in the skip set, removes
\* and returns the first entry left; p = <<>> stands for None.
getNextTodo(pm) ==
    LET ran  == pm.abtPlans \o pm.lastTodo
        rest == DropSkipped(pm.plans, pm.skipFunctions)
    IN  IF rest = <<>>
        THEN [pm |-> [pm EXCEPT !.plans = <<>>, !.abtPlans = ran, !.lastTodo = <<>>],
              p  |-> <<>>]
        ELSE [pm |-> [pm EXCEPT !.plans = Tail(rest), !.abtPlans = ran,
                                !.lastTodo = <<Head(rest)>>],
              p  |-> <<Head(rest)>>]

\* getNextAbort(): pops the already-run record, last run first.
getNextAbort(pm) ==
    IF pm.abtPlans = <<>>
    THEN [pm |-> pm, p |-> <<>>]
    ELSE [pm |-> [pm EXCEPT !.abtPlans = Front(@)], p |-> <<Last(pm.abtPlans)>>]

(***************************************************************************)
(* What a generator and an operation may do (the engine's inputs).         *)
(***************************************************************************)
\* The addPlans calls one generator makes for the chute it plans for: up to
\* n of them, each with a stage and an operation.
RECURSIVE AddSeqs(_)
AddSeqs(n) ==
    IF n <= 0 THEN {<<>>}
    ELSE LET shorter == AddSeqs(n - 1)
         IN  shorter \cup
             {Append(s, [stage |-> st, func |-> fn]) :
                  s \in {t \in shorter : Len(t) = n - 1},
                  st \in Stages, fn \in Funcs}

\* A generator returns a falsy value, a truthy error indicator, or raises.
GenOutcomes == {"falsy", "truthy", "raise"}

\* An operation's return value: None, one operation, or a list of operations.
SkipReturns ==
    {[kind |-> "none"]}
    \cup {[kind |-> "func", func |-> fn] : fn \in Funcs}
    \cup {[kind |-> "list", list |-> l] : l \in {<<>>, <<"f", "g">>}}

\* The operations a return value names.
Names(skipme) ==
    CASE skipme.kind = "func" -> {skipme.func}
      [] skipme.kind = "list" -> Range(skipme.list)
      [] OTHER -> {}

\* An operation raises or returns.
FuncOutcomes ==
    {[raises |-> TRUE]} \cup {[raises |-> FALSE, skipme |-> v] : v \in SkipReturns}

\* The exit statuses subprocess.call may return.
ExitStatuses == {0, 1, 2}

\* power.reboot and power.shutdown: the shutdown command is called; on status
\* 0 the message is passed to update.progress and the function returns None,
\* on any other status it raises.
PowerOnAnyStatus(message) ==
    {[raises |-> FALSE, skipme |-> [kind |-> "none"], progress |-> <<message>>,
      status |-> <<result>>] : result \in ExitStatuses}

Power(message) ==
    {[raises |-> result # 0, skipme |-> [kind |-> "none"],
      progress |-> IF result = 0 THEN <<message>> ELSE <<>>,
      status |-> <<result>>] : result \in ExitStatuses}

reboot == Power("Rebooting in 60 seconds.")

shutdown == Power("Halting in 60 seconds.")

\* dockerapi.removeAllContainers and state.removeAllChutes return None or
\* raise.
RemoveAll == {[raises |-> TRUE], [raises |-> FALSE, skipme |-> [kind |-> "none"]]}

\* What invoking operation fn may do.
Outcomes(fn) ==
    CASE fn = "reboot" -> reboot
      [] fn = "shutdown" -> shutdown
      [] fn \in {"removeAllContainers", "removeAllChutes"} -> RemoveAll
      [] OTHER -> FuncOutcomes

\* The progress message and the exit status an outcome carries, if any.
Progress(out) == IF "progress" \in DOMAIN out THEN out.progress ELSE <<>>

Status(out) == IF "status" \in DOMAIN out THEN out.status ELSE <<>>

\* The system state is the sequence of changes applied to it.  An operation
\* adds its change; its compensating action, the exact inverse, takes the
\* change away again when it is the latest one and leaves a state that never
\* held before (marked 0) otherwise.  An operation that raises changes nothing.
Apply(s, e) == Append(s, e.seq)

Undo(s, e) ==
    IF s # <<>> /\ Last(s) = e.seq THEN Front(s) ELSE Append(s, 0)

(***************************************************************************)
(* Chute (paradrop/core/chute/chute.py).  A Python value is None or a      *)
(* string; a string is the sequence of its characters' code points, so     *)
(* that len() and the order of strings are what Python computes.           *)
(***************************************************************************)
None == [type |-> "NoneType"]

Str(chars) == [type |-> "str", chars |-> chars]

\* not v: None and the empty string are falsy.
Not(v) == v.type = "NoneType" \/ (v.type = "str" /\ v.chars = <<>>)

\* s < t on strings: by code point, a proper prefix first.
RECURSIVE StrLess(_, _)
StrLess(s, t) ==
    IF t = <<>> THEN FALSE
    ELSE IF s = <<>> THEN TRUE
    ELSE IF Head(s) # Head(t) THEN Head(s) < Head(t)
    ELSE StrLess(Tail(s), Tail(t))

\* min(d): the smallest key of a non-empty dictionary.
min(d) == CHOOSE n \in DOMAIN d : \A m \in DOMAIN d : ~StrLess(m, n)

\* "main"; the names of services: "main", "a", "b", "ab", "Z".
main == <<109, 97, 105, 110>>

ServiceNames == {main, <<97>>, <<98>>, <<97, 98>>, <<90>>}

\* Service objects: a name and what tells two services of one name apart.
Services == {[name |-> n, image |-> i] : n \in ServiceNames, i \in {"img1", "img2"}}

\* Chute.STATE_RUNNING = "running", Chute.STATE_STOPPED = "stopped".
STATE_RUNNING == Str(<<114, 117, 110, 110, 105, 110, 103>>)

STATE_STOPPED == Str(<<115, 116, 111, 112, 112, 101, 100>>)

\* Chute.__init__ without a config argument: config, services and the cache
\* start as empty dictionaries.
Chute(name, description, owner, state, version) ==
    [name |-> name, description |-> description, owner |-> owner, state |-> state,
     version |-> version, config |-> [n \in {} |-> n], services |-> [n \in {} |-> n],
     cache |-> [n \in {} |-> n]]

\* Chute.isValid.
isValidIgnoringEmpty(self) ==
    IF self.name.type = "NoneType" THEN FALSE ELSE TRUE

isValid(self) ==
    IF Not(self.name) \/ Len(self.name.chars) = 0 THEN FALSE ELSE TRUE

\* Chute.add_service: self.services[service.name] = service.
add_service(self, service) ==
    [self EXCEPT !.services =
        [n \in DOMAIN @ \cup {service.name} |-> IF n = service.name THEN service ELSE @[n]]]

\* Chute.get_default_service; min of an empty dictionary raises ValueError.
get_default_serviceLargest(self) ==
    IF main \in DOMAIN self.services THEN [ret |-> self.services[main]]
    ELSE IF DOMAIN self.services = {} THEN [raised |-> "ValueError"]
    ELSE [ret |-> self.services[CHOOSE n \in DOMAIN self.services :
                                    \A m \in DOMAIN self.services : ~StrLess(n, m)]]

get_default_service(self) ==
    IF main \in DOMAIN self.services THEN [ret |-> self.services[main]]
    ELSE IF DOMAIN self.services = {} THEN [raised |-> "ValueError"]
    ELSE [ret |-> self.services[min(self.services)]]

(***************************************************************************)
(* PDServerRequest, PDServerResponse, JSONReceiver                         *)
(* (paradrop/lib/utils/http.py).                                           *)
(***************************************************************************)
\* PDServerRequest.__init__: the Authorization header is set when
\* setAuthHeader holds and the class has a token; <<>> is no header, <<t>>
\* is 'Bearer {}'.format(t).
PDServerRequest(path, setAuthHeader, tok) ==
    [path |-> path, setAuthHeader |-> setAuthHeader, method |-> "unset",
     authorization |-> IF setAuthHeader /\ tok # None THEN <<tok>> ELSE <<>>]

\* PDServerResponse.__init__.
PDServerResponse(code, data) ==
    [code |-> code, success |-> (code >= 200 /\ code < 300), data |-> data]

\* The bodies a response may carry, by what json.loads makes of them: it
\* raises ValueError, or gives a list, a dictionary without the key 'token',
\* or a dictionary with it.
Bodies == {"unparsable", "list", "dict", "dict+token"}

\* JSONReceiver.connectionLost: the parsed body, None when json.loads raised
\* ValueError.  A new token is the string "n".
loads(body) ==
    CASE body = "unparsable" -> None
      [] body = "list" -> [type |-> "list"]
      [] body = "dict" -> [type |-> "dict", token |-> <<>>]
      [] OTHER -> [type |-> "dict", token |-> <<Str(<<110>>)>>]

\* receiveResponse: which branch a response takes.
receiveResponse(code, setAuthHeader) ==
    IF code = 401 /\ setAuthHeader THEN "login"
    ELSE IF code >= 200 /\ code < 300 THEN "deliverBody"
    ELSE "callback"

\* receiveRetryResponse: which branch the response to the retry takes.
receiveRetryResponseLoggingInAgain(code, setAuthHeader) ==
    IF code = 401 /\ setAuthHeader THEN "login"
    ELSE IF code >= 200 /\ code < 300 THEN "deliverBody"
    ELSE "callback"

receiveRetryResponse(code, setAuthHeader) ==
    IF code >= 200 /\ code < 300 THEN "deliverBody" ELSE "callback"

\* Chute.inherit_attributes: the attributes the loop goes through, the test
\* that lets attribute a be copied from other, and the call: the object
\* after it and the dictionary of changes it returns.
InheritedAttributes == {"name", "description", "state", "version"}

InheritsWhateverIsSet(self, other, a) == other[a] # None

Inherits(self, other, a) == self[a] = None /\ other[a] # None

inherit_attributes(self, other) ==
    LET changed == {a \in InheritedAttributes : Inherits(self, other, a)}
    IN  [self |-> [f \in DOMAIN self |-> IF f \in changed THEN other[f] ELSE self[f]],
         ret  |-> [a \in changed |-> other[a]]]

(***************************************************************************)
(* pdtools: the add-wifi-ap command (pdtools/chute.py).  A dict is a       *)
(* function on its keys.                                                   *)
(***************************************************************************)
EmptyDict == [k \in {} |-> k]

\* d[k] = v
SetKey(d, k, v) == [x \in DOMAIN d \cup {k} |-> IF x = k THEN v ELSE d[x]]

\* update_object(obj, path): makes sure the section path names exists, an
\* empty dict standing in for every part that is missing; the section
\* returned is the one found in obj at path afterwards.
RECURSIVE update_object(_, _)
update_object(obj, path) ==
    IF path = <<>> THEN obj
    ELSE LET k     == Head(path)
             child == IF k \in DOMAIN obj THEN obj[k] ELSE EmptyDict
         IN  SetKey(obj, k, update_object(child, Tail(path)))

\* The wifi section the command makes for essid.
WifiSection(essid) ==
    [type     |-> "wifi",
     intfName |-> "wlan0",
     dhcp     |-> [lease |-> "12h", start |-> 4, limit |-> 250],
     ssid     |-> essid,
     options  |-> [isolate |-> FALSE, hidden |-> FALSE]]

\* The chute definition doc with config.net.wifi set to section.
WithWifi(doc, section) ==
    SetKey(doc, "config",
           SetKey(doc.config, "net", SetKey(doc.config.net, "wifi", section)))

\* add_wifi_ap(essid, password, force) run on the chute loaded from
\* paradrop.yaml: the lines it prints and the chutes it dumps to the file.
add_wifi_apCheckingPasswordLast(file, essid, password, force) ==
    LET doc == update_object(file, <<"config", "net">>)
        net == doc.config.net
    IN  IF "wifi" \in DOMAIN net /\ ~force
        THEN [printed |-> <<"Wi-Fi interface already exists in paradrop.yaml.",
                            "Please edit the file directly to make changes.">>,
              dumps   |-> <<>>]
        ELSE IF password # None /\ Len(password.chars) < 8
             THEN [printed |-> <<"Wi-Fi password must be at least 8 characters.">>,
                   dumps   |-> <<WithWifi(doc, WifiSection(essid))>>]
             ELSE [printed |-> <<>>,
                   dumps   |-> <<WithWifi(doc,
                                    IF password # None
                                    THEN SetKey(WifiSection(essid), "key", password)
                                    ELSE WifiSection(essid))>>]

add_wifi_ap(file, essid, password, force) ==
    LET doc == update_object(file, <<"config", "net">>)
        net == doc.config.net
    IN  IF "wifi" \in DOMAIN net /\ ~force
        THEN [printed |-> <<"Wi-Fi interface already exists in paradrop.yaml.",
                            "Please edit the file directly to make changes.">>,
              dumps   |-> <<>>]
        ELSE IF password # None /\ Len(password.chars) < 8
             THEN [printed |-> <<"Wi-Fi password must be at least 8 characters.">>,
                   dumps   |-> <<>>]
             ELSE [printed |-> <<>>,
                   dumps   |-> <<WithWifi(doc,
                                    IF password # None
                                    THEN SetKey(WifiSection(essid), "key", password)
                                    ELSE WifiSection(essid))>>]

\* The chute definitions paradrop.yaml may hold before the first command:
\* the name only, an empty config, an empty config.net, and a config.net
\* with a wifi interface.
NamedChute == [name |-> "mychute"]

YamlFiles ==
    {NamedChute,
     update_object(NamedChute, <<"config">>),
     update_object(NamedChute, <<"config", "net">>),
     WithWifi(update_object(NamedChute, <<"config", "net">>), WifiSection("old"))}

\* Chute(): the constructor's defaults.
DefaultChute ==
    /\ chute = Chute(None, None, None, STATE_RUNNING, None)
    /\ lastCall = [fn |-> "__init__"]

\* PDServerRequest(path) before any token was requested.
DefaultRequest ==
    /\ token = None
    /\ req = PDServerRequest("/path", TRUE, None)
    /\ hpc = "new"
    /\ resp = <<>>
    /\ wire = <<>>
    /\ received = <<>>
    /\ delivered = <<>>

\* A paradrop.yaml with the chute's name only, and no command run yet.
DefaultTool ==
    /\ paradrop_yaml = NamedChute
    /\ cmd = [fn |-> "none"]
    /\ dumps = <<>>
    /\ printed = <<>>

InitLib == DefaultChute /\ DefaultRequest /\ DefaultTool

(***************************************************************************)
(* Initial state: each Update has an empty plan graph and no responses.    *)
(***************************************************************************)
InitEngine ==
    /\ pc = [u \in UpdateIds |-> "generate"]
    /\ genIdx = [u \in UpdateIds |-> 1]
    /\ genResult = [u \in UpdateIds |-> "pending"]
    /\ plans = [u \in UpdateIds |-> EmptyPlanMap]
    /\ responses = [u \in UpdateIds |-> <<>>]
    /\ execResult = [u \in UpdateIds |-> "pending"]
    /\ abortResult = [u \in UpdateIds |-> "pending"]
    /\ sameError = [u \in UpdateIds |-> FALSE]
    /\ sys = [u \in UpdateIds |-> <<>>]
    /\ added = [u \in UpdateIds |-> <<>>]
    /\ genLog = [u \in UpdateIds |-> <<>>]
    /\ todoLog = [u \in UpdateIds |-> <<>>]
    /\ named = [u \in UpdateIds |-> {}]
    /\ abortLog = [u \in UpdateIds |-> <<>>]

\* An Update of a chute: the router-control generator has nothing to plan.
InitUpdate ==
    /\ updateType = [u \in UpdateIds |-> "install"]
    /\ progress = [u \in UpdateIds |-> <<>>]
    /\ osLog = [u \in UpdateIds |-> <<>>]

Init == active = {"u1"} /\ InitEngine /\ InitUpdate /\ InitLib

(***************************************************************************)
(* generatePlans(update)                                                   *)
(***************************************************************************)
\* What the for loop does with the value mod.generatePlans(update) gave:
\* a truthy value returns True at once, an exception propagates, anything
\* else goes on to the next generator; after the last one the function
\* falls off its end (returns None) and the caller aggregates.
AfterGeneratorIgnoringError(u, res) ==
    IF res = "raise"
    THEN /\ genResult' = [genResult EXCEPT ![u] = "raised"]
         /\ pc' = [pc EXCEPT ![u] = "raised"]
         /\ UNCHANGED genIdx
    ELSE /\ genIdx' = [genIdx EXCEPT ![u] = @ + 1]
         /\ IF genIdx[u] = Len(updateModuleList)
            THEN /\ genResult' = [genResult EXCEPT ![u] = "None"]
                 /\ pc' = [pc EXCEPT ![u] = "aggregate"]
            ELSE UNCHANGED <<genResult, pc>>

AfterGenerator(u, res) ==
    CASE res = "truthy" ->
            /\ genResult' = [genResult EXCEPT ![u] = "True"]
            /\ pc' = [pc EXCEPT ![u] = "rejected"]
            /\ UNCHANGED genIdx
      [] res = "raise" ->
            /\ genResult' = [genResult EXCEPT ![u] = "raised"]
            /\ pc' = [pc EXCEPT ![u] = "raised"]
            /\ UNCHANGED genIdx
      [] OTHER ->
            /\ genIdx' = [genIdx EXCEPT ![u] = @ + 1]
            /\ IF genIdx[u] = Len(updateModuleList)
               THEN /\ genResult' = [genResult EXCEPT ![u] = "None"]
                    /\ pc' = [pc EXCEPT ![u] = "aggregate"]
               ELSE UNCHANGED <<genResult, pc>>

\* One iteration of the for loop: the next generator is invoked, calls
\* addPlans some number of times and returns or raises.
GeneratePlansStep(u) ==
    /\ pc[u] = "generate"
    /\ genIdx[u] <= Len(updateModuleList)
    /\ \E ch \in Owners, adds \in AddSeqs(MaxPlans - Len(plans[u].plans)),
          res \in GenOutcomes :
          /\ plans' = [plans EXCEPT ![u] = addAll(@, ch, adds)]
          /\ added' = [added EXCEPT ![u] = addAll(plans[u], ch, adds).plans]
          /\ genLog' = [genLog EXCEPT ![u] =
                            Append(@, [mod |-> updateModuleList[genIdx[u]], res |-> res])]
          /\ AfterGenerator(u, res)
    /\ UNCHANGED <<active, responses, execResult, abortResult, sameError, sys,
                   todoLog, named, abortLog, routerVars>>

(***************************************************************************)
(* aggregatePlans(update)                                                  *)
(***************************************************************************)
AggregatePlansNoSort(u) ==
    /\ pc[u] = "aggregate"
    /\ pc' = [pc EXCEPT ![u] = "execute"]
    /\ UNCHANGED <<active, genIdx, genResult, plans, responses, execResult,
                   abortResult, sameError, sys, histVars, routerVars>>

AggregatePlansMergingDuplicates(u) ==
    /\ pc[u] = "aggregate"
    /\ plans' = [plans EXCEPT ![u] =
                    LET s == sort(@).plans
                    IN  IF Len(s) >= 2 /\ s[1].stage = s[2].stage /\ s[1].func = s[2].func
                        THEN [@ EXCEPT !.plans = Tail(s)]
                        ELSE sort(@)]
    /\ pc' = [pc EXCEPT ![u] = "execute"]
    /\ UNCHANGED <<active, genIdx, genResult, responses, execResult,
                   abortResult, sameError, sys, histVars, routerVars>>

AggregatePlans(u) ==
    /\ pc[u] = "aggregate"
    /\ plans' = [plans EXCEPT ![u] = sort(@)]
    /\ pc' = [pc EXCEPT ![u] = "execute"]
    /\ UNCHANGED <<active, genIdx, genResult, responses, execResult,
                   abortResult, sameError, sys, histVars, routerVars>>

(***************************************************************************)
(* executePlans(update)                                                    *)
(***************************************************************************)
\* if(skipme): a non-empty return value.
Truthy(skipme) ==
    \/ skipme.kind = "func"
    \/ skipme.kind = "list" /\ skipme.list # <<>>

\* The operations to register: a single one is wrapped into a list.
SkipListWithoutWrapping(skipme) ==
    IF skipme.kind = "list" THEN skipme.list ELSE <<>>

SkipList(skipme) ==
    IF skipme.kind = "list" THEN skipme.list ELSE <<skipme.func>>

registerFirstOnly(pm, fns) ==
    IF fns = <<>> THEN pm ELSE registerSkip(pm, Head(fns))

RECURSIVE registerAll(_, _)
registerAll(pm, fns) ==
    IF fns = <<>> THEN pm ELSE registerAll(registerSkip(pm, Head(fns)), Tail(fns))

\* The operation returned: its skips, if any, are registered, and the loop
\* goes on.
OnExecReturnReportingFailure(u, pm, e, skipme) ==
    /\ plans' = [plans EXCEPT ![u] =
                    IF Truthy(skipme) THEN registerAll(pm, SkipList(skipme)) ELSE pm]
    /\ sys' = [sys EXCEPT ![u] = Apply(@, e)]
    /\ execResult' = [execResult EXCEPT ![u] = "True"]
    /\ pc' = [pc EXCEPT ![u] = "abort"]
    /\ UNCHANGED responses

OnExecReturnEndingLoop(u, pm, e, skipme) ==
    /\ plans' = [plans EXCEPT ![u] =
                    IF Truthy(skipme) THEN registerAll(pm, SkipList(skipme)) ELSE pm]
    /\ sys' = [sys EXCEPT ![u] = Apply(@, e)]
    /\ execResult' = [execResult EXCEPT ![u] = "False"]
    /\ pc' = [pc EXCEPT ![u] = "completed"]
    /\ UNCHANGED responses

OnExecReturnRetroactive(u, pm, e, skipme) ==
    /\ plans' = [plans EXCEPT ![u] =
                    IF Truthy(skipme)
                    THEN [registerAll(pm, SkipList(skipme)) EXCEPT
                             !.abtPlans = SelectSeq(@, LAMBDA a : a.func \notin Names(skipme))]
                    ELSE pm]
    /\ sys' = [sys EXCEPT ![u] = Apply(@, e)]
    /\ UNCHANGED <<pc, responses, execResult>>

OnExecReturnNotRegistering(u, pm, e, skipme) ==
    /\ plans' = [plans EXCEPT ![u] = pm]
    /\ sys' = [sys EXCEPT ![u] = Apply(@, e)]
    /\ UNCHANGED <<pc, responses, execResult>>

OnExecReturn(u, pm, e, skipme) ==
    /\ plans' = [plans EXCEPT ![u] =
                    IF Truthy(skipme) THEN registerAll(pm, SkipList(skipme)) ELSE pm]
    /\ sys' = [sys EXCEPT ![u] = Apply(@, e)]
    /\ UNCHANGED <<pc, responses, execResult>>

\* The operation raised: the except clause records the fault and returns
\* True; the caller then runs abortPlans.
OnExecFaultUnrecorded(u, pm, e) ==
    /\ plans' = [plans EXCEPT ![u] = pm]
    /\ execResult' = [execResult EXCEPT ![u] = "True"]
    /\ pc' = [pc EXCEPT ![u] = "abort"]
    /\ UNCHANGED <<responses, sys>>

OnExecFaultContinuing(u, pm, e) ==
    /\ plans' = [plans EXCEPT ![u] = pm]
    /\ responses' = [responses EXCEPT ![u] = Append(@, [phase |-> "execute", seq |-> e.seq])]
    /\ UNCHANGED <<execResult, pc, sys>>

OnExecFaultSharedResponses(u, pm, e) ==
    /\ plans' = [plans EXCEPT ![u] = pm]
    /\ responses' = [v \in UpdateIds |->
                        Append(responses[v], [phase |-> "execute", seq |-> e.seq])]
    /\ execResult' = [execResult EXCEPT ![u] = "True"]
    /\ pc' = [pc EXCEPT ![u] = "abort"]
    /\ UNCHANGED sys

OnExecFault(u, pm, e) ==
    /\ plans' = [plans EXCEPT ![u] = pm]
    /\ responses' = [responses EXCEPT ![u] = Append(@, [phase |-> "execute", seq |-> e.seq])]
    /\ execResult' = [execResult EXCEPT ![u] = "True"]
    /\ pc' = [pc EXCEPT ![u] = "abort"]
    /\ UNCHANGED sys

\* One iteration of the while loop.
ExecutePlansStep(u) ==
    /\ pc[u] = "execute"
    /\ LET r == getNextTodo(plans[u])
       IN  IF r.p = <<>>
           THEN /\ plans' = [plans EXCEPT ![u] = r.pm]
                /\ execResult' = [execResult EXCEPT ![u] = "False"]
                /\ pc' = [pc EXCEPT ![u] = "completed"]
                /\ UNCHANGED <<responses, sys, todoLog, named, progress, osLog>>
           ELSE \E out \in Outcomes(r.p[1].func) :
                   /\ todoLog' = [todoLog EXCEPT ![u] =
                                     Append(@, [entry |-> r.p[1], raises |-> out.raises])]
                   /\ named' = [named EXCEPT ![u] =
                                   IF out.raises THEN @ ELSE @ \cup Names(out.skipme)]
                   /\ progress' = [progress EXCEPT ![u] = @ \o Progress(out)]
                   /\ osLog' = [osLog EXCEPT ![u] = @ \o Status(out)]
                   /\ IF out.raises
                      THEN OnExecFault(u, r.pm, r.p[1])
                      ELSE OnExecReturn(u, r.pm, r.p[1], out.skipme)
    /\ UNCHANGED <<active, genIdx, genResult, abortResult, sameError, added, genLog,
                   abortLog, updateType>>

(***************************************************************************)
(* abortPlans(update)                                                      *)
(***************************************************************************)
\* The compensating action returned: the flag is cleared, the loop goes on.
OnAbortOkStopping(u, pm, e) ==
    /\ plans' = [plans EXCEPT ![u] = pm]
    /\ sys' = [sys EXCEPT ![u] = Undo(@, e)]
    /\ sameError' = [sameError EXCEPT ![u] = FALSE]
    /\ abortResult' = [abortResult EXCEPT ![u] = "False"]
    /\ pc' = [pc EXCEPT ![u] = "restored"]
    /\ UNCHANGED responses

OnAbortOk(u, pm, e) ==
    /\ plans' = [plans EXCEPT ![u] = pm]
    /\ sys' = [sys EXCEPT ![u] = Undo(@, e)]
    /\ sameError' = [sameError EXCEPT ![u] = FALSE]
    /\ UNCHANGED <<pc, responses, abortResult>>

\* The compensating action raised.  With the flag set the except clause
\* returns True.  Otherwise it evaluates responseMessages.append(...): the
\* module binds no name responseMessages, so this raises NameError inside
\* the handler, which leaves abortPlans; nothing is appended and the flag
\* is never set.
OnAbortFault(u, pm, e) ==
    /\ plans' = [plans EXCEPT ![u] = pm]
    /\ IF sameError[u]
       THEN /\ abortResult' = [abortResult EXCEPT ![u] = "True"]
            /\ pc' = [pc EXCEPT ![u] = "fatal"]
       ELSE /\ abortResult' = [abortResult EXCEPT ![u] = "raised"]
            /\ pc' = [pc EXCEPT ![u] = "raised"]
    /\ UNCHANGED <<responses, sameError, sys>>

\* One iteration of the while loop.
AbortPlansStep(u) ==
    /\ pc[u] = "abort"
    /\ LET r == getNextAbort(plans[u])
       IN  IF r.p = <<>>
           THEN /\ abortResult' = [abortResult EXCEPT ![u] = "False"]
                /\ pc' = [pc EXCEPT ![u] = "restored"]
                /\ UNCHANGED <<plans, responses, sameError, sys, abortLog>>
           ELSE \E raises \in BOOLEAN :
                   /\ abortLog' = [abortLog EXCEPT ![u] =
                                      Append(@, [entry |-> r.p[1], raises |-> raises])]
                   /\ IF raises
                      THEN OnAbortFault(u, r.pm, r.p[1])
                      ELSE OnAbortOk(u, r.pm, r.p[1])
    /\ UNCHANGED <<active, genIdx, genResult, execResult, added, genLog, todoLog,
                   named, routerVars>>

(***************************************************************************)
(* The engine run for one Update at a time.                                *)
(***************************************************************************)
Generate == \E u \in UpdateIds : u \in active /\ GeneratePlansStep(u) /\ UNCHANGED libVars

Aggregate == \E u \in UpdateIds : u \in active /\ AggregatePlans(u) /\ UNCHANGED libVars

Execute == \E u \in UpdateIds : u \in active /\ ExecutePlansStep(u) /\ UNCHANGED libVars

Abort == \E u \in UpdateIds : u \in active /\ AbortPlansStep(u) /\ UNCHANGED libVars

Next == Generate \/ Aggregate \/ Execute \/ Abort

Spec == Init /\ [][Next]_vars

(***************************************************************************)
(* The router-control generator (paradrop/lib/plan/router.py) and the      *)
(* engine run on Updates of the router, whose only generator it is.        *)
(***************************************************************************)
\* update.updateType of an Update of the router; "other" is any type the
\* generator has no branch for.
RouterUpdateTypes == {"factoryreset", "reboot", "shutdown", "other"}

\* generatePlans(update) of router.py: the addPlans calls it makes and how it
\* ends.  It has no return statement, so it returns None (falsy).  The
\* shutdown branch evaluates uphane.plans; no name uphane is bound, so it
\* raises NameError before anything is added.
router_generatePlansSwapped(ut) ==
    CASE ut = "factoryreset" ->
            [adds |-> <<[stage |-> STATE_SAVE_CHUTE, func |-> "removeAllContainers"],
                        [stage |-> STATE_CALL_STOP, func |-> "removeAllChutes"]>>,
             res |-> "falsy"]
      [] ut = "reboot" ->
            [adds |-> <<[stage |-> STATE_CALL_STOP, func |-> "reboot"]>>, res |-> "falsy"]
      [] ut = "shutdown" -> [adds |-> <<>>, res |-> "raise"]
      [] OTHER -> [adds |-> <<>>, res |-> "falsy"]

router_generatePlansDefaultingToReboot(ut) ==
    CASE ut = "factoryreset" ->
            [adds |-> <<[stage |-> STATE_CALL_STOP, func |-> "removeAllContainers"],
                        [stage |-> STATE_SAVE_CHUTE, func |-> "removeAllChutes"]>>,
             res |-> "falsy"]
      [] ut = "shutdown" -> [adds |-> <<>>, res |-> "raise"]
      [] OTHER ->
            [adds |-> <<[stage |-> STATE_CALL_STOP, func |-> "reboot"]>>, res |-> "falsy"]

router_generatePlans(ut) ==
    CASE ut = "factoryreset" ->
            [adds |-> <<[stage |-> STATE_CALL_STOP, func |-> "removeAllContainers"],
                        [stage |-> STATE_SAVE_CHUTE, func |-> "removeAllChutes"]>>,
             res |-> "falsy"]
      [] ut = "reboot" ->
            [adds |-> <<[stage |-> STATE_CALL_STOP, func |-> "reboot"]>>, res |-> "falsy"]
      [] ut = "shutdown" -> [adds |-> <<>>, res |-> "raise"]
      [] OTHER -> [adds |-> <<>>, res |-> "falsy"]

\* generatePlans(update) of the engine for an Update whose updateModuleList is
\* the router-control generator alone: the loop's one iteration.
RouterGeneratePlansStepInvoking(u) ==
    /\ pc[u] = "generate"
    /\ LET g == router_generatePlans(updateType[u])
       IN  /\ plans' = [plans EXCEPT ![u] = addAll(@, "router", g.adds)]
           /\ added' = [added EXCEPT ![u] = addAll(plans[u], "router", g.adds).plans]
           /\ genLog' = [genLog EXCEPT ![u] = Append(@, [mod |-> "router", res |-> g.res])]
           /\ sys' = [sys EXCEPT ![u] = [i \in 1..Len(g.adds) |-> i]]
           /\ IF g.res = "raise"
              THEN /\ genResult' = [genResult EXCEPT ![u] = "raised"]
                   /\ pc' = [pc EXCEPT ![u] = "raised"]
                   /\ UNCHANGED genIdx
              ELSE /\ genResult' = [genResult EXCEPT ![u] = "None"]
                   /\ pc' = [pc EXCEPT ![u] = "aggregate"]
                   /\ genIdx' = [genIdx EXCEPT ![u] = @ + 1]
    /\ UNCHANGED <<active, responses, execResult, abortResult, sameError,
                   todoLog, named, abortLog, routerVars>>

RouterGeneratePlansStep(u) ==
    /\ pc[u] = "generate"
    /\ LET g == router_generatePlans(updateType[u])
       IN  /\ plans' = [plans EXCEPT ![u] = addAll(@, "router", g.adds)]
           /\ added' = [added EXCEPT ![u] = addAll(plans[u], "router", g.adds).plans]
           /\ genLog' = [genLog EXCEPT ![u] = Append(@, [mod |-> "router", res |-> g.res])]
           /\ IF g.res = "raise"
              THEN /\ genResult' = [genResult EXCEPT ![u] = "raised"]
                   /\ pc' = [pc EXCEPT ![u] = "raised"]
                   /\ UNCHANGED genIdx
              ELSE /\ genResult' = [genResult EXCEPT ![u] = "None"]
                   /\ pc' = [pc EXCEPT ![u] = "aggregate"]
                   /\ genIdx' = [genIdx EXCEPT ![u] = @ + 1]
    /\ UNCHANGED <<active, responses, execResult, abortResult, sameError, sys,
                   todoLog, named, abortLog, routerVars>>

RouterGenerate == \E u \in UpdateIds : u \in active /\ RouterGeneratePlansStep(u) /\ UNCHANGED libVars

\* Two Updates of the router, each of any type, each run by its own worker.
InitRouter ==
    /\ active = UpdateIds
    /\ InitEngine
    /\ updateType \in [UpdateIds -> RouterUpdateTypes]
    /\ progress = [u \in UpdateIds |-> <<>>]
    /\ osLog = [u \in UpdateIds |-> <<>>]
    /\ InitLib

NextRouter == RouterGenerate \/ Aggregate \/ Execute \/ Abort

SpecRouter == InitRouter /\ [][NextRouter]_vars

(***************************************************************************)
(* Two Updates run by two workers: u1, an Update of a chute whose plans    *)
(* are generated and aggregated, and u2, an Update of the router.          *)
(***************************************************************************)
\* The state of Update u1 when aggregatePlans has returned: the generators
\* made the addPlans calls adds for chute ch, none reported an error.
Aggregated(ch, adds) ==
    [plans |-> sort(addAll(EmptyPlanMap, ch, adds)),
     added |-> addAll(EmptyPlanMap, ch, adds).plans,
     genLog |-> [i \in 1..Len(updateModuleList) |->
                    [mod |-> updateModuleList[i], res |-> "falsy"]]]

InitPair ==
    /\ active = UpdateIds
    /\ \E ch \in Owners, adds \in AddSeqs(MaxPlans - 2) :
          /\ plans = [u \in UpdateIds |->
                         IF u = "u1" THEN Aggregated(ch, adds).plans ELSE EmptyPlanMap]
          /\ added = [u \in UpdateIds |->
                         IF u = "u1" THEN Aggregated(ch, adds).added ELSE <<>>]
          /\ genLog = [u \in UpdateIds |->
                          IF u = "u1" THEN Aggregated(ch, adds).genLog ELSE <<>>]
    /\ pc = [u \in UpdateIds |-> IF u = "u1" THEN "execute" ELSE "generate"]
    /\ genIdx = [u \in UpdateIds |-> IF u = "u1" THEN Len(updateModuleList) + 1 ELSE 1]
    /\ genResult = [u \in UpdateIds |-> IF u = "u1" THEN "None" ELSE "pending"]
    /\ responses = [u \in UpdateIds |-> <<>>]
    /\ execResult = [u \in UpdateIds |-> "pending"]
    /\ abortResult = [u \in UpdateIds |-> "pending"]
    /\ sameError = [u \in UpdateIds |-> FALSE]
    /\ sys = [u \in UpdateIds |-> <<>>]
    /\ todoLog = [u \in UpdateIds |-> <<>>]
    /\ named = [u \in UpdateIds |-> {}]
    /\ abortLog = [u \in UpdateIds |-> <<>>]
    /\ \E ut \in RouterUpdateTypes :
          updateType = [u \in UpdateIds |-> IF u = "u1" THEN "install" ELSE ut]
    /\ progress = [u \in UpdateIds |-> <<>>]
    /\ osLog = [u \in UpdateIds |-> <<>>]
    /\ InitLib

NextPair == RouterGenerate \/ Aggregate \/ Execute \/ Abort

SpecPair == InitPair /\ [][NextPair]_vars

(***************************************************************************)
(* A Chute object and the calls of its methods.                            *)
(***************************************************************************)
\* The names a chute is constructed with: None, "", "a", "main".
ChuteNames == {None, Str(<<>>), Str(<<97>>), Str(main)}

\* The versions: None, "1".
ChuteVersions == {None, Str(<<49>>)}

\* The descriptions: None, "a".
ChuteDescriptions == {None, Str(<<97>>)}

InitChute ==
    /\ active = {}
    /\ InitEngine
    /\ InitUpdate
    /\ \E name \in ChuteNames, description \in ChuteDescriptions,
          state \in {STATE_RUNNING, STATE_STOPPED}, version \in ChuteVersions :
          chute = Chute(name, description, None, state, version)
    /\ lastCall = [fn |-> "__init__"]
    /\ DefaultRequest
    /\ DefaultTool

IsValid ==
    /\ lastCall' = [fn |-> "isValid", ret |-> isValid(chute)]
    /\ UNCHANGED <<chute, active, engineVars, histVars, routerVars, httpVars, toolVars>>

AddService ==
    /\ \E service \in Services : chute' = add_service(chute, service)
    /\ lastCall' = [fn |-> "add_service"]
    /\ UNCHANGED <<active, engineVars, histVars, routerVars, httpVars, toolVars>>

GetDefaultService ==
    /\ lastCall' = [fn |-> "get_default_service"] @@ get_default_service(chute)
    /\ UNCHANGED <<chute, active, engineVars, histVars, routerVars, httpVars, toolVars>>

NextChute == IsValid \/ AddService \/ GetDefaultService

SpecChute == InitChute /\ [][NextChute]_vars

(***************************************************************************)
(* A Chute object inheriting from other versions of the chute.             *)
(***************************************************************************)
\* The desired states: None, "running", "stopped".
ChuteStates == {None, STATE_RUNNING, STATE_STOPPED}

\* The chutes of one owner as the constructor makes them.
Chutes(owner) ==
    {Chute(name, description, owner, state, version) :
        name \in ChuteNames, description \in ChuteDescriptions,
        state \in ChuteStates, version \in ChuteVersions}

\* The services added to a chute before it inherits: none, or "main" and "a".
ServiceLists ==
    {<<>>, <<[name |-> main, image |-> "img1"], [name |-> <<97>>, image |-> "img2"]>>}

RECURSIVE add_services(_, _)
add_services(self, list) ==
    IF list = <<>> THEN self ELSE add_services(add_service(self, Head(list)), Tail(list))

InitInherit ==
    /\ active = {}
    /\ InitEngine
    /\ InitUpdate
    /\ \E owner \in {None, Str(<<111>>)}, list \in ServiceLists :
          \E c \in Chutes(owner) : chute = add_services(c, list)
    /\ lastCall = [fn |-> "add_service"]
    /\ DefaultRequest
    /\ DefaultTool

\* self.inherit_attributes(other), other being another version of the chute,
\* owned by "p".
InheritAttributes ==
    /\ \E other \in Chutes(Str(<<112>>)) :
          /\ chute' = inherit_attributes(chute, other).self
          /\ lastCall' = [fn |-> "inherit_attributes", self |-> chute, other |-> other,
                          ret |-> inherit_attributes(chute, other).ret]
    /\ UNCHANGED <<active, engineVars, histVars, routerVars, httpVars, toolVars>>

NextInherit == InheritAttributes

SpecInherit == InitInherit /\ [][NextInherit]_vars

(***************************************************************************)
(* A PDServerRequest object from get/patch/post/put to its deferred.       *)
(***************************************************************************)
\* The status codes pdserver answers with.
Codes == {200, 299, 300, 401, 403}

\* PDServerRequest.token when the object is made: None, or the token "t".
Tokens == {None, Str(<<116>>)}

Methods == {"GET", "PATCH", "POST", "PUT"}

InitHttp ==
    /\ active = {}
    /\ InitEngine
    /\ InitUpdate
    /\ DefaultChute
    /\ DefaultTool
    /\ token \in Tokens
    /\ \E setAuthHeader \in BOOLEAN : req = PDServerRequest("/path", setAuthHeader, token)
    /\ hpc = "new"
    /\ resp = <<>>
    /\ wire = <<>>
    /\ received = <<>>
    /\ delivered = <<>>

\* The variables no step of a PDServerRequest touches.
nonHttpVars == <<active, engineVars, histVars, routerVars, chuteVars, toolVars>>

\* request() of object r: the agent is handed the method, the url and the
\* headers r has now.
request(r) ==
    Append(wire, [path |-> r.path, method |-> r.method, authorization |-> r.authorization])

\* get, patch, post, put: the method is set, request() is called, and
\* receiveResponse waits.
Send ==
    /\ hpc = "new"
    /\ \E method \in Methods :
          /\ req' = [req EXCEPT !.method = method]
          /\ wire' = request([req EXCEPT !.method = method])
    /\ hpc' = "sent"
    /\ UNCHANGED <<token, resp, received, delivered, nonHttpVars>>

\* authRequest = PDServerRequest('/auth/router', setAuthHeader=False),
\* posted.
authRequestWithAuthHeader ==
    [PDServerRequest("/auth/router", TRUE, token) EXCEPT !.method = "POST"]

authRequest ==
    [PDServerRequest("/auth/router", FALSE, token) EXCEPT !.method = "POST"]

\* What receiveResponse and receiveRetryResponse do with a response, by
\* branch.  "login": a PDServerRequest for /auth/router with
\* setAuthHeader=False is made and posted, cbLogin waits for it.
\* "deliverBody": a JSONReceiver is given the deferred.  "callback": the
\* deferred is fired with the response.
Handle(code, branch) ==
    CASE branch = "login" ->
            /\ wire' = request(authRequest)
            /\ hpc' = "authSent"
            /\ resp' = <<code>>
            /\ UNCHANGED delivered
      [] branch = "deliverBody" ->
            /\ hpc' = "body"
            /\ resp' = <<code>>
            /\ UNCHANGED <<wire, delivered>>
      [] OTHER ->
            /\ delivered' = Append(delivered, PDServerResponse(code, None))
            /\ hpc' = "done"
            /\ resp' = <<>>
            /\ UNCHANGED wire

\* The agent's deferred fires with the response to the first request.
ReceiveResponse ==
    /\ hpc = "sent"
    /\ \E code \in Codes :
          /\ received' = Append(received, [to |-> "first", code |-> code])
          /\ Handle(code, receiveResponse(code, req.setAuthHeader))
    /\ UNCHANGED <<token, req, nonHttpVars>>

\* The response to the auth request: receiveResponse of the auth request
\* object either hands its body to a JSONReceiver or fires the auth deferred
\* with it, on which cbLogin, finding success False, fires the deferred with
\* the first response.  Were the auth request made with setAuthHeader, a
\* 401 would make it request a token for itself in the same way.
ReceiveAuthResponse ==
    /\ hpc = "authSent"
    /\ \E code \in Codes :
          /\ received' = Append(received, [to |-> "auth", code |-> code])
          /\ CASE receiveResponse(code, authRequest.setAuthHeader) = "deliverBody" ->
                    /\ hpc' = "authBody"
                    /\ resp' = Append(resp, code)
                    /\ UNCHANGED <<wire, delivered>>
               [] receiveResponse(code, authRequest.setAuthHeader) = "login" ->
                    /\ wire' = request(authRequest)
                    /\ UNCHANGED <<hpc, resp, delivered>>
               [] OTHER ->
                    /\ delivered' = Append(delivered, PDServerResponse(resp[1], None))
                    /\ hpc' = "done"
                    /\ resp' = <<>>
                    /\ UNCHANGED wire
    /\ UNCHANGED <<token, req, nonHttpVars>>

\* cbLogin with a successful authResponse whose body was loaded into data:
\* authResponse.data.get raises AttributeError when data is None or a list;
\* otherwise the token is stored, put into the headers, and the first
\* request is made again, receiveRetryResponse waiting.
cbLogin(data) ==
    IF data = None \/ data.type # "dict"
    THEN /\ hpc' = "lost"
         /\ UNCHANGED <<token, req, wire>>
    ELSE LET tok == IF data.token = <<>> THEN None ELSE data.token[1]
         IN  /\ token' = tok
             /\ req' = [req EXCEPT !.authorization = <<tok>>]
             /\ wire' = request([req EXCEPT !.authorization = <<tok>>])
             /\ hpc' = "retrySent"

\* JSONReceiver.connectionLost on the auth response's body: with ResponseDone
\* the auth deferred fires and cbLogin runs; with any other reason it raises
\* and no deferred fires.
AuthBodyDone ==
    /\ hpc = "authBody"
    /\ \E done \in BOOLEAN, body \in Bodies :
          IF done
          THEN cbLogin(loads(body))
          ELSE /\ hpc' = "lost"
               /\ UNCHANGED <<token, req, wire>>
    /\ resp' = <<>>
    /\ UNCHANGED <<received, delivered, nonHttpVars>>

\* The agent's deferred fires with the response to the retry.
ReceiveRetryResponse ==
    /\ hpc = "retrySent"
    /\ \E code \in Codes :
          /\ received' = Append(received, [to |-> "retry", code |-> code])
          /\ Handle(code, receiveRetryResponse(code, req.setAuthHeader))
    /\ UNCHANGED <<token, req, nonHttpVars>>

\* JSONReceiver.connectionLost on the body of the response to the first
\* request or to the retry.
BodyDone ==
    /\ hpc = "body"
    /\ \E done \in BOOLEAN, body \in Bodies :
          IF done
          THEN /\ delivered' = Append(delivered, PDServerResponse(resp[1], loads(body)))
               /\ hpc' = "done"
          ELSE /\ hpc' = "lost"
               /\ UNCHANGED delivered
    /\ resp' = <<>>
    /\ UNCHANGED <<token, req, wire, received, nonHttpVars>>

\* The agent's deferred fails (no connection): the callbacks added to it are
\* not run, and nothing fires the deferred of the request.
RequestFailed ==
    /\ hpc \in {"sent", "authSent", "retrySent"}
    /\ hpc' = "lost"
    /\ resp' = <<>>
    /\ UNCHANGED <<token, req, wire, received, delivered, nonHttpVars>>

NextHttp ==
    \/ Send
    \/ ReceiveResponse
    \/ ReceiveAuthResponse
    \/ AuthBodyDone
    \/ ReceiveRetryResponse
    \/ BodyDone
    \/ RequestFailed

SpecHttp == InitHttp /\ [][NextHttp]_vars

\* The reactor runs every callback that is due: a request not yet made is
\* made, a response that has arrived is handled, a body delivery ends.
\* Whether the connection fails is up to the network.
SpecHttpFair ==
    /\ SpecHttp
    /\ WF_vars(Send)
    /\ WF_vars(ReceiveResponse)
    /\ WF_vars(ReceiveAuthResponse)
    /\ WF_vars(AuthBodyDone)
    /\ WF_vars(ReceiveRetryResponse)
    /\ WF_vars(BodyDone)

(***************************************************************************)
(* What the histories say about a run.                                     *)
(***************************************************************************)
Entries(log) == [i \in 1..Len(log) |-> log[i].entry]

\* An operation of u has raised: executePlans has failed.
ExecFaulted(u) == \E i \in 1..Len(todoLog[u]) : todoLog[u][i].raises

\* The entries whose operation ran to its end, in execution order.
RanEntries(u) == Entries(SelectSeq(todoLog[u], LAMBDA t : ~t.raises))

\* abortPlans has ended, by returning or by raising.
AbortEnded(u) == abortResult[u] # "pending"

\* The positions of abortLog[u] whose compensating action raised.
AbortFaults(u) == {i \in 1..Len(abortLog[u]) : abortLog[u][i].raises}

\* The records abortPlans has put into update.responses.
AbortRecords(u) == SelectSeq(responses[u], LAMBDA r : r.phase = "abort")

\* The position of an entry in the order of the addPlans calls.
InsertionIndex(u, e) == CHOOSE i \in 1..Len(added[u]) : added[u][i] = e

(***************************************************************************)
(* C1.  When the operation of step k raises, abortPlans invokes the        *)
(* compensating actions of exactly the steps k-1, ..., 1, in that order,   *)
(* and neither loop ever visits an entry that was still pending at step k. *)
(* Fails: a compensating action that raises makes abortPlans leave with    *)
(* NameError, the earlier steps never visited.                             *)
(***************************************************************************)
C1_AbortVisitsRunStepsInReverse ==
    \A u \in active :
        /\ AbortEnded(u) => Entries(abortLog[u]) = Reverse(RanEntries(u))
        /\ ExecFaulted(u) => Last(todoLog[u]).raises
        /\ \A e \in Range(plans[u].plans) :
              e \notin Range(Entries(todoLog[u])) \cup Range(Entries(abortLog[u]))

(***************************************************************************)
(* C2.  The operations executePlans invokes are in non-decreasing stage    *)
(* order, and those of equal stage in the order of their addPlans calls,   *)
(* whichever chutes own them.                                              *)
(***************************************************************************)
C2_TodoOrderedByStageThenInsertion ==
    \A u \in active :
        \A i, j \in 1..Len(todoLog[u]) :
            i < j =>
                LET a == todoLog[u][i].entry
                    b == todoLog[u][j].entry
                IN  /\ a.stage <= b.stage
                    /\ a.stage = b.stage => InsertionIndex(u, a) < InsertionIndex(u, b)

\* A completed run of three or more operations of both chutes, two of them
\* of one stage, whose order of execution is not the order of insertion.
C2_Witness ==
    /\ pc["u1"] = "completed"
    /\ Len(todoLog["u1"]) >= 3
    /\ \E i, j \in 1..Len(todoLog["u1"]) :
          LET a == todoLog["u1"][i].entry
              b == todoLog["u1"][j].entry
          IN  i < j /\ a.stage < b.stage /\ a.seq > b.seq /\ a.ch # b.ch
    /\ \E i, j \in 1..Len(todoLog["u1"]) :
          i < j /\ todoLog["u1"][i].entry.stage = todoLog["u1"][j].entry.stage

(***************************************************************************)
(* C3.  Once a return value has named operation X, no entry whose          *)
(* operation is X is invoked by executePlans any more, and the already-run *)
(* record and the abort loop hold only entries executePlans has invoked.   *)
(***************************************************************************)
C3_NamedOperationNeverRuns ==
    [][\A u \in active :
          /\ todoLog'[u] # todoLog[u] => Last(todoLog'[u]).entry.func \notin named[u]
          /\ Range(plans'[u].abtPlans) \cup Range(plans'[u].lastTodo)
                 \cup Range(Entries(abortLog'[u]))
                 \subseteq Range(Entries(todoLog'[u]))]_vars

\* A run that failed after a single operation was named and an entry with
\* that operation, pending at the time, was dropped; abortPlans has unwound it.
C3_Witness ==
    /\ pc["u1"] = "restored"
    /\ abortLog["u1"] # <<>>
    /\ \E e \in Range(added["u1"]) :
          /\ e.func \in named["u1"]
          /\ named["u1"] # Funcs
          /\ e \notin Range(Entries(todoLog["u1"]))
          /\ e \notin Range(plans["u1"].plans)

(***************************************************************************)
(* C4.  If the compensating action of step k-1 raises and that of step k-2 *)
(* raises too, abortPlans returns True with exactly two abort records in   *)
(* update.responses and attempts no earlier step.                          *)
(* Fails: after the first raise abortPlans leaves with NameError; step k-2 *)
(* is never attempted and nothing is recorded.                             *)
(***************************************************************************)
C4_TwoAbortFaultsAreFatal ==
    \A u \in active :
        (AbortEnded(u) /\ Len(RanEntries(u)) >= 2 /\ 1 \in AbortFaults(u)) =>
            /\ Len(abortLog[u]) >= 2
            /\ 2 \in AbortFaults(u) =>
                  /\ abortResult[u] = "True"
                  /\ Len(AbortRecords(u)) = 2
                  /\ Len(abortLog[u]) = 2

(***************************************************************************)
(* C5.  One compensating action that raises is tolerated: the fault is     *)
(* appended to update.responses, every remaining step is unwound in        *)
(* reverse order and abortPlans returns False.                             *)
(* Fails: abortPlans leaves with NameError at that fault.                  *)
(***************************************************************************)
C5_SingleAbortFaultTolerated ==
    \A u \in active :
        (/\ AbortEnded(u)
         /\ Cardinality(AbortFaults(u)) = 1
         /\ \A i \in AbortFaults(u) : i < Len(RanEntries(u))) =>
            /\ abortResult[u] = "False"
            /\ Entries(abortLog[u]) = Reverse(RanEntries(u))
            /\ Len(AbortRecords(u)) = 1

(***************************************************************************)
(* C6.  No fault leaves the engine: executePlans and abortPlans each end   *)
(* by returning True or False, never by an exception.                      *)
(* Fails: abortPlans ends by NameError when a compensating action raises.  *)
(***************************************************************************)
C6_FaultsNeverEscape ==
    \A u \in active :
        /\ execResult[u] \in {"pending", "True", "False"}
        /\ abortResult[u] \in {"pending", "True", "False"}

(***************************************************************************)
(* C7.  If an operation raises and every compensating action abortPlans    *)
(* invokes succeeds, abortPlans returns False and update.responses holds   *)
(* exactly one record, that of the execution fault.                        *)
(***************************************************************************)
C7_CleanAbortLeavesOneResponse ==
    \A u \in active :
        (ExecFaulted(u) /\ AbortFaults(u) = {}) =>
            /\ pc[u] \in {"abort", "restored"}
            /\ pc[u] = "restored" <=> abortResult[u] = "False"
            /\ Len(responses[u]) = 1
            /\ responses[u][1] = [phase |-> "execute", seq |-> Last(todoLog[u]).entry.seq]

\* Three steps ran, the fourth raised, all three were compensated.
C7_Witness ==
    /\ pc["u1"] = "restored"
    /\ Len(abortLog["u1"]) = 3
    /\ AbortFaults("u1") = {}

(***************************************************************************)
(* C8.  Each operation being a change of the system state and its          *)
(* compensating action the exact inverse: when executePlans has failed and *)
(* abortPlans returns False without an abort fault, the system state is    *)
(* the one from before executePlans.                                       *)
(***************************************************************************)
C8_RollbackRestoresState ==
    \A u \in active :
        (abortResult[u] = "False" /\ AbortFaults(u) = {}) => sys[u] = <<>>

\* Two or more changes had been applied, one entry had been skipped, and
\* the changes were taken back.
C8_Witness ==
    /\ abortResult["u1"] = "False"
    /\ Len(abortLog["u1"]) >= 2
    /\ named["u1"] # {}
    /\ Len(todoLog["u1"]) + Len(plans["u1"].plans) < Len(added["u1"])
    /\ sys["u1"] = <<>>

(***************************************************************************)
(* C9.  abortPlans returns True exactly when two compensating actions in a *)
(* row have raised, and returns False otherwise, however many raised.      *)
(* Fails: abortPlans leaves with NameError at the first one that raises.   *)
(***************************************************************************)
C9_FatalIffTwoConsecutiveFaults ==
    \A u \in active :
        AbortEnded(u) =>
            abortResult[u] =
                IF \E i \in AbortFaults(u) : i + 1 \in AbortFaults(u)
                THEN "True" ELSE "False"

(***************************************************************************)
(* C10.  generatePlans invokes the generators in registration order; when  *)
(* one returns a truthy value it returns True at once: no later generator  *)
(* is invoked and no operation has been executed.                          *)
(***************************************************************************)
C10_GeneratorErrorStopsGeneration ==
    \A u \in active :
        /\ Len(genLog[u]) <= Len(updateModuleList)
        /\ \A i \in 1..Len(genLog[u]) :
              /\ genLog[u][i].mod = updateModuleList[i]
              /\ genLog[u][i].res = "truthy" =>
                    /\ i = Len(genLog[u])
                    /\ genResult[u] = "True"
                    /\ pc[u] = "rejected"
                    /\ todoLog[u] = <<>> /\ abortLog[u] = <<>> /\ sys[u] = <<>>

\* The first generator planned two operations and then signalled an error.
C10_Witness ==
    /\ genResult["u1"] = "True"
    /\ Len(genLog["u1"]) = 1
    /\ Len(plans["u1"].plans) = 2



(***************************************************************************)
(* The router-control generator: factory reset, reboot, shutdown.          *)
(***************************************************************************)
\* The operations of the entries in a log, in order.
FuncsOf(log) == [i \in 1..Len(log) |-> log[i].entry.func]

\* The generator has run for Update u.
Generated(u) == genLog[u] # <<>>

\* The engine has left executePlans for Update u.
ExecEnded(u) == execResult[u] # "pending"

\* C11: for updateType "factoryreset" the router-control generator adds
\* exactly two entries, removeAllContainers (stop all containers) and
\* removeAllChutes (remove all chute records), the first at a strictly lower
\* stage than the second; when neither raises, executePlans invokes
\* removeAllContainers first and removeAllChutes second and returns False
\* (success).
C11_FactoryResetStopsThenRemoves ==
    \A u \in active :
        updateType[u] = "factoryreset" /\ Generated(u) =>
            /\ Len(added[u]) = 2
            /\ \E i, j \in 1..2 :
                  /\ added[u][i].func = "removeAllContainers"
                  /\ added[u][j].func = "removeAllChutes"
                  /\ added[u][i].stage < added[u][j].stage
            /\ ExecEnded(u) /\ ~ExecFaulted(u) =>
                  /\ FuncsOf(todoLog[u]) = <<"removeAllContainers", "removeAllChutes">>
                  /\ execResult[u] = "False"

C11_Witness ==
    \E u \in active :
        /\ updateType[u] = "factoryreset"
        /\ pc[u] = "completed"
        /\ FuncsOf(todoLog[u]) = <<"removeAllContainers", "removeAllChutes">>

\* C12: in a factory reset whose removeAllContainers raises, removeAllChutes
\* is never invoked, and abortPlans invokes no compensating action and
\* returns False (RESTORED).
C12_FailedStopAllUnwindsNothing ==
    \A u \in active :
        /\ updateType[u] = "factoryreset"
        /\ todoLog[u] # <<>>
        /\ todoLog[u][1].raises
        => /\ FuncsOf(todoLog[u]) = <<"removeAllContainers">>
           /\ abortLog[u] = <<>>
           /\ pc[u] \in {"abort", "restored"}
           /\ AbortEnded(u) => abortResult[u] = "False" /\ pc[u] = "restored"

C12_Witness ==
    \E u \in active :
        /\ updateType[u] = "factoryreset"
        /\ todoLog[u] # <<>>
        /\ todoLog[u][1].raises
        /\ pc[u] = "restored"

\* C13: in a reboot the one operation calls the shutdown command once.  On a
\* non-zero status it raises: executePlans records the fault and returns
\* True, abortPlans invokes no compensating action, and the run ends
\* RESTORED, never FATAL.  On status 0 it passes one message to
\* update.progress and does not raise.
C13_RebootFaultsOnNonZeroStatus ==
    \A u \in active :
        updateType[u] = "reboot" /\ osLog[u] # <<>> =>
            /\ Len(osLog[u]) = 1
            /\ FuncsOf(todoLog[u]) = <<"reboot">>
            /\ IF osLog[u][1] # 0
               THEN /\ todoLog[u][1].raises
                    /\ Len(responses[u]) = 1
                    /\ responses[u][1].phase = "execute"
                    /\ execResult[u] = "True"
                    /\ abortLog[u] = <<>>
                    /\ pc[u] \in {"abort", "restored"}
                    /\ AbortEnded(u) => abortResult[u] = "False"
                    /\ progress[u] = <<>>
               ELSE /\ ~todoLog[u][1].raises
                    /\ Len(progress[u]) = 1
                    /\ responses[u] = <<>>
                    /\ pc[u] \in {"execute", "completed"}

C13_Witness ==
    \E u \in active :
        /\ updateType[u] = "reboot"
        /\ osLog[u] # <<>>
        /\ osLog[u][1] # 0
        /\ pc[u] = "restored"

\* C14: for "reboot" and for "shutdown" the router-control generator returns
\* without raising and leaves exactly one pending entry in update.plans.
C14_PowerUpdatesPlanOneOperation ==
    \A u \in active :
        updateType[u] \in {"reboot", "shutdown"} /\ Generated(u) =>
            /\ genLog[u][1].res # "raise"
            /\ Len(added[u]) = 1
            /\ pc[u] = "aggregate" => Len(plans[u].plans) = 1

(***************************************************************************)
(* Chute.                                                                  *)
(***************************************************************************)
\* The service objects of a chute.
ServicesOf(c) == {c.services[n] : n \in DOMAIN c.services}

\* C15: isValid() returns True exactly when the chute's name is a non-empty
\* string: with name None or "" it returns False, whatever the chute's
\* other fields are.
C15_ValidIffNameNonEmpty ==
    lastCall.fn = "isValid" =>
        (lastCall.ret <=> (chute.name.type = "str" /\ chute.name.chars # <<>>))

C15_Witness ==
    /\ lastCall.fn = "isValid"
    /\ chute.name = Str(<<>>)
    /\ chute.version # None
    /\ DOMAIN chute.services # {}
    /\ lastCall.ret = FALSE

\* C16: on a chute with at least one service get_default_service returns the
\* service named "main" when there is one, otherwise the service whose name
\* is the smallest in the order of strings; what it returns is one of the
\* chute's services.
C16_DefaultServiceIsMainOrSmallest ==
    lastCall.fn = "get_default_service" /\ DOMAIN chute.services # {} =>
        /\ "ret" \in DOMAIN lastCall
        /\ lastCall.ret \in ServicesOf(chute)
        /\ IF main \in DOMAIN chute.services
           THEN lastCall.ret = chute.services[main]
           ELSE /\ lastCall.ret = chute.services[lastCall.ret.name]
                /\ \A m \in DOMAIN chute.services \ {lastCall.ret.name} :
                      StrLess(lastCall.ret.name, m)

\* Services "b" and "a", no "main": the service "a" is returned.
C16_Witness ==
    /\ lastCall.fn = "get_default_service"
    /\ DOMAIN chute.services = {<<98>>, <<97>>}
    /\ lastCall.ret = chute.services[<<97>>]

(***************************************************************************)
(* PDServerRequest.                                                        *)
(***************************************************************************)
\* The positions in the history of requests that went to path.
SentTo(path) == {i \in 1..Len(wire) : wire[i].path = path}

\* The responses to the retry that were not successful.
FailedRetries ==
    {i \in 1..Len(received) :
        received[i].to = "retry" /\ ~PDServerResponse(received[i].code, None).success}

C18_RunEndsCompletedRestoredOrFatal ==
    \A u \in active :
        ExecEnded(u) => pc[u] \in {"completed", "abort", "restored", "fatal"}

\* The steps the caller of the engine takes from one phase to the next:
\* generated, aggregated, executing, then completed or aborting, then
\* restored or fatal.  A run also ends where generatePlans rejects the
\* Update and where an exception leaves the engine.
PhaseOrder ==
    {<<"generate", "aggregate">>, <<"aggregate", "execute">>,
     <<"execute", "completed">>, <<"execute", "abort">>,
     <<"abort", "restored">>, <<"abort", "fatal">>,
     <<"generate", "rejected">>, <<"generate", "raised">>, <<"abort", "raised">>}

\* C19: the phases follow one another only in the order generated,
\* aggregated, executing, then completed or aborting, then restored or
\* fatal; operations are invoked by executePlans only, after aggregation;
\* abortPlans runs only after an operation raised in executePlans; and once
\* executePlans has returned False no compensating action is ever invoked.
C19_PhasesInOrder ==
    /\ [][\A u \in active :
            /\ pc'[u] # pc[u] => <<pc[u], pc'[u]>> \in PhaseOrder
            /\ todoLog'[u] # todoLog[u] => pc[u] = "execute" /\ genResult[u] = "None"
            /\ abortLog'[u] # abortLog[u] => pc[u] = "abort" /\ ExecFaulted(u)
            /\ pc'[u] = "abort" => ExecFaulted(u)'
            /\ execResult[u] = "False" => abortLog'[u] = <<>>]_vars
    /\ [](\A u \in active :
            /\ pc[u] \in {"generate", "aggregate", "rejected"} =>
                  todoLog[u] = <<>> /\ abortLog[u] = <<>>
            /\ pc[u] \in {"abort", "restored", "fatal"} =>
                  ExecFaulted(u) /\ execResult[u] = "True"
            /\ execResult[u] = "False" => abortLog[u] = <<>> /\ pc[u] = "completed")

\* A run through every phase to restored, with two steps unwound.
C19_Witness ==
    \E u \in active :
        /\ pc[u] = "restored"
        /\ Len(abortLog[u]) >= 2
        /\ Len(todoLog[u]) >= 3

\* C20: when no operation raises, executePlans returns False (COMPLETED):
\* every entry that was added and whose operation is not in the skip set has
\* been invoked exactly once, no entry has been invoked twice, no pending
\* entry remains, and update.responses is as it was (empty).
C20_SuccessRunsEveryPlanOnce ==
    \A u \in active :
        ExecEnded(u) /\ ~ExecFaulted(u) =>
            /\ execResult[u] = "False"
            /\ pc[u] = "completed"
            /\ plans[u].plans = <<>>
            /\ responses[u] = <<>>
            /\ \A i, j \in 1..Len(todoLog[u]) :
                  todoLog[u][i].entry = todoLog[u][j].entry => i = j
            /\ \A i \in 1..Len(added[u]) :
                  added[u][i].func \notin plans[u].skipFunctions =>
                      \E j \in 1..Len(todoLog[u]) : todoLog[u][j].entry = added[u][i]

\* A completed run of three operations in which a fourth entry was skipped.
C20_Witness ==
    \E u \in active :
        /\ pc[u] = "completed"
        /\ Len(added[u]) = 4
        /\ Len(todoLog[u]) = 3
        /\ plans[u].skipFunctions # {}

(***************************************************************************)
(* Frame conditions of the engine.                                         *)
(***************************************************************************)
\* aggregatePlans has returned for Update u and executePlans has not yet
\* asked for an entry.
JustAggregated(u) ==
    pc[u] = "execute" /\ todoLog[u] = <<>> /\ plans[u].lastTodo = <<>>

C22_SkipSetIsWhatWasReturned ==
    \A u \in active : plans[u].skipFunctions = named[u]

\* The one operation invoked so far returned the list of f and g.
C22_Witness ==
    \E u \in active :
        /\ Len(todoLog[u]) = 1
        /\ ~ExecFaulted(u)
        /\ plans[u].skipFunctions = {"f", "g"}

\* C23: generation only plans.  For every updateType, when generatePlans has
\* returned, no operation has been invoked (the system state, the progress
\* messages and the calls of the shutdown command are as before), the
\* already-run record and the skip set are empty, update.responses is
\* empty as before, and the pending list holds the entries addPlans was
\* called with, in that order.
C23_GenerationOnlyPlans ==
    \A u \in active :
        pc[u] = "aggregate" =>
            /\ todoLog[u] = <<>> /\ abortLog[u] = <<>>
            /\ sys[u] = <<>> /\ progress[u] = <<>> /\ osLog[u] = <<>>
            /\ plans[u].abtPlans = <<>> /\ plans[u].lastTodo = <<>>
            /\ plans[u].skipFunctions = {}
            /\ responses[u] = <<>>
            /\ plans[u].plans = added[u]
            /\ [i \in 1..Len(added[u]) |-> [stage |-> added[u][i].stage, func |-> added[u][i].func]]
                  = router_generatePlans(updateType[u]).adds

\* generatePlans has returned for a factory reset with its two entries
\* pending, while the other Update is already being executed.
C23_Witness ==
    \E u, v \in active :
        /\ updateType[u] = "factoryreset"
        /\ pc[u] = "aggregate"
        /\ Len(plans[u].plans) = 2
        /\ todoLog[v] # <<>>

(***************************************************************************)
(* Two Updates at once.                                                    *)
(***************************************************************************)
\* Everything that belongs to Update u.
Per(u) ==
    <<pc[u], genIdx[u], genResult[u], plans[u], responses[u], execResult[u],
      abortResult[u], sameError[u], sys[u], added[u], genLog[u], todoLog[u],
      named[u], abortLog[u], updateType[u], progress[u], osLog[u]>>

\* s is t or the front part of t.
IsPrefix(s, t) == Len(s) <= Len(t) /\ s = SubSeq(t, 1, Len(s))

\* C24: the engine holds no state shared by Updates.  With the steps of two
\* Updates interleaved in any order, a step of one Update changes nothing
\* of the other, and each Update's run is the run of its own plan graph:
\* the operations invoked are its own entries, its skip set is what its own
\* operations returned, abortPlans unwinds its own already-run steps in
\* reverse order, its responses hold its own execution fault and nothing
\* else, and its outcome is that of its own operations.
C24_UpdatesDoNotInterfere ==
    /\ [][\A u \in active :
            Per(u)' # Per(u) => \A v \in active \ {u} : Per(v)' = Per(v)]_vars
    /\ [](\A u \in active :
            /\ Range(Entries(todoLog[u])) \subseteq Range(added[u])
            /\ plans[u].skipFunctions = named[u]
            /\ IsPrefix(Entries(abortLog[u]), Reverse(RanEntries(u)))
            /\ responses[u] =
                  [i \in 1..(IF ExecFaulted(u) THEN 1 ELSE 0) |->
                      [phase |-> "execute", seq |-> Last(todoLog[u]).entry.seq]]
            /\ pc[u] = "completed" => ~ExecFaulted(u)
            /\ pc[u] \in {"abort", "restored", "fatal"} => ExecFaulted(u))

\* Update u, whose second operation raised, is about to unwind its first
\* while Update v, a factory reset, is between its two operations.
C24_Witness ==
    \E u, v \in active :
        /\ u # v
        /\ pc[u] = "abort"
        /\ Len(todoLog[u]) = 2
        /\ named[u] # {}
        /\ pc[v] = "execute"
        /\ Len(todoLog[v]) = 1
        /\ updateType[v] = "factoryreset"

(***************************************************************************)
(* Chute.inherit_attributes.                                               *)
(***************************************************************************)
\* C25: inherit_attributes(other) never overwrites a field that is set.
\* Each of name, description, state and version is changed exactly when it
\* was None and other's value is not None, and is then other's value; the
\* dictionary returned holds exactly the changed fields with their new
\* values; owner, config, services and the cache are unchanged.
C25_InheritFillsOnlyAbsentFields ==
    lastCall.fn = "inherit_attributes" =>
        LET before == lastCall.self
            other  == lastCall.other
        IN  /\ \A a \in {"name", "description", "state", "version"} :
                  /\ chute[a] # before[a] <=> (before[a] = None /\ other[a] # None)
                  /\ chute[a] # before[a] => chute[a] = other[a]
                  /\ a \in DOMAIN lastCall.ret <=> chute[a] # before[a]
                  /\ a \in DOMAIN lastCall.ret => lastCall.ret[a] = chute[a]
            /\ DOMAIN lastCall.ret \subseteq {"name", "description", "state", "version"}
            /\ \A f \in {"owner", "config", "services", "cache"} : chute[f] = before[f]

\* A chute named "" without a version, with two services, inherits the
\* version of a chute named "main": the name stays, the version is set.
C25_Witness ==
    /\ lastCall.fn = "inherit_attributes"
    /\ lastCall.self.name = Str(<<>>)
    /\ lastCall.self.version = None
    /\ lastCall.other.name = Str(main)
    /\ lastCall.other.version # None
    /\ DOMAIN chute.services = {main, <<97>>}
    /\ chute.name = Str(<<>>)
    /\ DOMAIN lastCall.ret = {"version"}

(***************************************************************************)
(* PDServerRequest: the token request.                                     *)
(***************************************************************************)
\* The responses to the auth request that carry code.
AuthAnswers(code) ==
    {i \in 1..Len(received) : received[i].to = "auth" /\ received[i].code = code}

\* C26: the request for a token never causes another request for a token.
\* It is sent without an Authorization header, to /auth/router, and only
\* in answer to a 401 to the first request; a 401 to it fires the deferred
\* with a failure response and nothing is sent after it; so one
\* PDServerRequest causes at most three requests whatever the server
\* answers.
C26_TokenRequestNeverRepeats ==
    /\ Len(wire) <= 3
    /\ \A i \in SentTo("/auth/router") :
          /\ wire[i].authorization = <<>>
          /\ i = 2
          /\ received[1] = [to |-> "first", code |-> 401]
    /\ AuthAnswers(401) # {} =>
          /\ hpc = "done"
          /\ Len(wire) = 2
          /\ Len(delivered) = 1
          /\ ~delivered[1].success
          /\ delivered[1].code = 401

\* The token request was answered with 401.
C26_Witness ==
    /\ AuthAnswers(401) # {}
    /\ hpc = "done"
    /\ wire[1].authorization # <<>>

(***************************************************************************)
(* pdtools chute add-wifi-ap, run any number of times in one directory.    *)
(***************************************************************************)
Essids == {"home", "guest"}

\* No --password, and passwords of 0, 7, 8 and 9 characters.
Passwords ==
    {None} \cup {Str([i \in 1..n |-> 112]) : n \in {0, 7, 8, 9}}

InitTool ==
    /\ active = {}
    /\ InitEngine
    /\ InitUpdate
    /\ DefaultChute
    /\ DefaultRequest
    /\ paradrop_yaml \in YamlFiles
    /\ cmd = [fn |-> "none"]
    /\ dumps = <<>>
    /\ printed = <<>>

\* One run of the command: paradrop.yaml is loaded, and each dump replaces
\* its content.
AddWifiAp ==
    /\ \E essid \in Essids, password \in Passwords, force \in BOOLEAN :
          LET r == add_wifi_ap(paradrop_yaml, essid, password, force)
          IN  /\ cmd' = [fn |-> "add-wifi-ap", essid |-> essid, password |-> password,
                         force |-> force, found |-> paradrop_yaml]
              /\ dumps' = r.dumps
              /\ printed' = r.printed
              /\ paradrop_yaml' = IF r.dumps = <<>> THEN paradrop_yaml ELSE Last(r.dumps)
    /\ UNCHANGED <<active, engineVars, histVars, routerVars, chuteVars, httpVars>>

NextTool == AddWifiAp

SpecTool == InitTool /\ [][NextTool]_vars

(***************************************************************************)
(* executePlans: which pending entries a skip removes.                     *)
(***************************************************************************)
\* The pending entries in front of the first one whose operation is not in
\* the set skip, and those behind it.
RECURSIVE NamedPrefix(_, _)
NamedPrefix(pending, skip) ==
    IF pending = <<>> \/ Head(pending).func \notin skip THEN <<>>
    ELSE <<Head(pending)>> \o NamedPrefix(Tail(pending), skip)

\* The entries of update u that were dropped: neither pending nor invoked.
Dropped(u) ==
    {e \in Range(added[u]) :
        e \notin Range(plans[u].plans) \cup Range(Entries(todoLog[u]))}

\* C27: a skip matches by operation only.  Each iteration of executePlans
\* drops the pending entries in front whose operation a return value has
\* named, whatever their chute and stage, invokes the first entry whose
\* operation has not been named, and leaves the entries behind it pending,
\* in their order; an entry is dropped only if its operation was named.
C27_SkipMatchesByOperationOnly ==
    /\ [][\A u \in active :
            todoLog'[u] # todoLog[u] =>
               LET pending == plans[u].plans
                   k       == Len(NamedPrefix(pending, named[u]))
               IN  /\ k < Len(pending)
                   /\ Last(todoLog'[u]).entry = pending[k + 1]
                   /\ plans'[u].plans = SubSeq(pending, k + 2, Len(pending))]_vars
    /\ [](\A u \in active : \A e \in Dropped(u) : e.func \in named[u])

\* A completed run in which an operation of one chute named X, an entry of
\* the other chute with operation X and another stage was dropped, and an
\* entry behind it whose operation was never named was invoked.
C27_Witness ==
    /\ pc["u1"] = "completed"
    /\ \E d \in Dropped("u1") :
       \E i, j \in 1..Len(todoLog["u1"]) :
          LET e == todoLog["u1"][i].entry
              k == todoLog["u1"][j].entry
          IN  /\ i < j
              /\ e.ch # d.ch
              /\ e.stage < d.stage
              /\ k.func \notin named["u1"]
              /\ d.stage <= k.stage
              /\ d.seq < k.seq

\* C28: a skip is not retroactive.  While executePlans runs, the
\* already-run record and the entry returned last are the entries invoked so
\* far, those whose operation has been named since included; after a fault
\* the record and the entries abortPlans has taken from it, last run first,
\* are the entries that returned; and an abortPlans that ran to the end has
\* invoked the compensating action of every one of them.
C28_SkipIsNotRetroactive ==
    \A u \in active :
        /\ pc[u] = "execute" =>
              plans[u].abtPlans \o plans[u].lastTodo = Entries(todoLog[u])
        /\ ExecFaulted(u) =>
              plans[u].abtPlans \o Reverse(Entries(abortLog[u])) = RanEntries(u)
        /\ pc[u] = "restored" =>
              \A e \in Range(RanEntries(u)) :
                  e.func \in named[u] => e \in Range(Entries(abortLog[u]))

\* Two entries with operation X returned, so the first ran before X was
\* named; X was named, a later operation raised, and abortPlans has invoked
\* the compensating actions of both.
C28_Witness ==
    /\ pc["u1"] = "restored"
    /\ \E i, j \in 1..Len(todoLog["u1"]) :
          LET a == todoLog["u1"][i]
              b == todoLog["u1"][j]
          IN  /\ i < j
              /\ ~a.raises /\ ~b.raises
              /\ a.entry.func = b.entry.func
              /\ a.entry.func \in named["u1"]
              /\ {a.entry, b.entry} \subseteq Range(Entries(abortLog["u1"]))

(***************************************************************************)
(* update.responses                                                        *)
(***************************************************************************)
\* C29: update.responses is append-only: every step of generatePlans,
\* aggregatePlans, executePlans and abortPlans leaves the records it holds
\* in place, executePlans adds at most one record in all, and after a failed
\* run the first record is the execution fault, the records behind it are
\* abort faults, one for each compensating action that raised.
\* Fails: abortPlans leaves with NameError at the raise and appends nothing.
C29_ResponsesAppendOnly ==
    /\ [][\A u \in active : IsPrefix(responses[u], responses'[u])]_vars
    /\ [](\A u \in active :
            /\ Len(SelectSeq(responses[u], LAMBDA r : r.phase = "execute")) <= 1
            /\ ExecFaulted(u) =>
                  /\ responses[u] # <<>>
                  /\ responses[u][1] = [phase |-> "execute", seq |-> Last(todoLog[u]).entry.seq]
                  /\ Tail(responses[u]) = AbortRecords(u)
                  /\ Len(AbortRecords(u)) = Cardinality(AbortFaults(u)))

(***************************************************************************)
(* PDServerRequest: the caller's deferred.                                 *)
(***************************************************************************)
\* A request got no response at all: the agent's deferred failed.
ConnectionFailed == hpc = "lost" /\ Len(received) < Len(wire)

\* C30: whatever the server answers, the deferred of a PDServerRequest is
\* fired once in the end and never twice: unless a request gets no
\* response at all, a callback is delivered, and no second one ever is.
\* Fails: a body delivery that ends with a connection error, and a token
\* response whose body does not load into a dict, leave the deferred
\* unfired for ever.
C30_DeferredFiresExactlyOnce ==
    /\ [](Len(delivered) <= 1)
    /\ <>(Len(delivered) = 1 \/ ConnectionFailed)

(***************************************************************************)
(* The router-control generator: an updateType it does not know.           *)
(***************************************************************************)
\* C31: for an updateType other than factoryreset, reboot and shutdown the
\* router-control generator adds no entry, returns a falsy value and does
\* not raise: generation ends with None and nothing planned, and the run
\* that follows invokes nothing and records nothing.
C31_UnknownUpdateTypePlansNothing ==
    \A u \in active :
        updateType[u] \notin {"factoryreset", "reboot", "shutdown"} /\ Generated(u) =>
            /\ genLog[u] = <<[mod |-> "router", res |-> "falsy"]>>
            /\ added[u] = <<>>
            /\ plans[u].plans = <<>>
            /\ genResult[u] = "None"
            /\ pc[u] \in {"aggregate", "execute", "completed"}
            /\ todoLog[u] = <<>>
            /\ responses[u] = <<>>

\* An Update of an unknown type has passed generation and its run has
\* completed, beside an Update that planned something.
C31_Witness ==
    \E u, v \in active :
        /\ updateType[u] = "other"
        /\ pc[u] = "completed"
        /\ execResult[u] = "False"
        /\ added[v] # <<>>

(***************************************************************************)
(* pdtools: add-wifi-ap                                                    *)
(***************************************************************************)
\* The chute definition doc has a wifi interface in config.net.
HasWifi(doc) ==
    /\ "config" \in DOMAIN doc
    /\ "net" \in DOMAIN doc.config
    /\ "wifi" \in DOMAIN doc.config.net

\* The command run last was turned down: a wifi interface was there and
\* --force was not given, or the password has fewer than 8 characters.
Rejected ==
    \/ HasWifi(cmd.found) /\ ~cmd.force
    \/ cmd.password # None /\ Len(cmd.password.chars) < 8

\* C32: add-wifi-ap leaves paradrop.yaml as it found it when it turns the
\* command down, which it does when config.net has a wifi interface and
\* --force is not given, or when the password has fewer than 8 characters;
\* in every other case it writes the file once, the wifi section carrying
\* the ESSID given (and the password, if one was given) and the rest of
\* the chute definition as it was.
C32_RejectedCommandWritesNothing ==
    cmd.fn = "add-wifi-ap" =>
        IF Rejected
        THEN /\ dumps = <<>>
             /\ paradrop_yaml = cmd.found
             /\ printed # <<>>
        ELSE /\ Len(dumps) = 1
             /\ paradrop_yaml = dumps[1]
             /\ HasWifi(paradrop_yaml)
             /\ paradrop_yaml.config.net.wifi.ssid = cmd.essid
             /\ ("key" \in DOMAIN paradrop_yaml.config.net.wifi) = (cmd.password # None)
             /\ cmd.password # None => paradrop_yaml.config.net.wifi.key = cmd.password
             /\ \A k \in DOMAIN cmd.found \ {"config"} : paradrop_yaml[k] = cmd.found[k]

\* A forced command with a password of 7 characters was turned down, on a
\* file whose wifi section an earlier command had written with a password.
C32_Witness ==
    /\ cmd.fn = "add-wifi-ap"
    /\ cmd.force
    /\ cmd.password # None /\ Len(cmd.password.chars) = 7
    /\ HasWifi(cmd.found)
    /\ cmd.found.config.net.wifi.ssid \in Essids \ {cmd.essid}
    /\ "key" \in DOMAIN cmd.found.config.net.wifi
    /\ paradrop_yaml = cmd.found

=============================================================================
